---- MODULE Spec2Model ----
(***************************************************************************)
(* Model of the filesystem-explorer server: the FileSynchronizer           *)
(* (synchronizer.py) mirroring the upload directory into the storage       *)
(* directory, and the tool functions of main.py with their shared          *)
(* filename cache.                                                         *)
(*                                                                         *)
(* A directory tree is a function from relative paths (sequences of        *)
(* names) to nodes; its domain is the set of paths that exist.  The        *)
(* root of a tree is the empty path and is not in the domain.              *)
(***************************************************************************)
EXTENDS Integers, Sequences, FiniteSets, TLC

VARIABLES
    srcExists,    \* os.path.exists(Config.UPLOADED_FILES_PATH)
    src,          \* the tree under Config.UPLOADED_FILES_PATH (source_dir)
    dst,          \* the tree under Config.STORAGE_PATH (dest_dir)
    dstExists,    \* os.path.exists(Config.STORAGE_PATH)
    clock,        \* the wall clock that stamps modification times
    observer,     \* FileSynchronizer.observer: "None", "alive", "stopped"
    queue,        \* the observer's event queue
    obsPc,        \* the observer thread: "idle" or "handling"
    curEv,        \* the event the observer thread is dispatching
    mainPc,       \* the foreground thread: "idle", "walk", "schedule", "join"
    walkDirs,     \* sync_all_files: directories os.walk has still to visit
    walkFiles,    \* sync_all_files: files of the current directory not yet copied
    scanClean,    \* the source has not changed since the running full scan began
    lastCall,     \* the last start_watching / stop_watching call and how it ended
    cache,        \* main.list_of_files, the shared filename cache
    lastTool      \* the last tool call of main.py and what it returned

vars == <<srcExists, src, dst, dstExists, clock, observer, queue, obsPc, curEv, mainPc,
          walkDirs, walkFiles, scanClean, lastCall, cache, lastTool>>

----------------------------------------------------------------------------
(* Bounds of the model *)

MaxClock == 2     \* number of writes the environment makes to the source
MaxQueue == 2     \* events waiting in the observer's queue
MaxLen   == 3     \* characters in a string handed to normalize_name

Names    == {"a", "B_c"}
DirNames == {"a"}

NoPath == <<"-">>
Root   == << >>

----------------------------------------------------------------------------
(* Trees *)

Parent(p)   == SubSeq(p, 1, Len(p) - 1)
Basename(p) == p[Len(p)]

FileNode(c, t) == [kind |-> "file", content |-> c, mtime |-> t]
DirNode        == [kind |-> "dir"]

\* A directory with its modification time, where a listing looks at it.
DirNodeAt(time) == [kind |-> "dir", mtime |-> time]

Exists(t, p) == p = Root \/ p \in DOMAIN t
IsDir(t, p)  == p = Root \/ (p \in DOMAIN t /\ t[p].kind = "dir")
IsFile(t, p) == p \in DOMAIN t /\ t[p].kind = "file"

Put(t, p, n) == [q \in (DOMAIN t) \cup {p} |-> IF q = p THEN n ELSE t[q]]
Remove(t, p) == [q \in (DOMAIN t) \ {p} |-> t[q]]

Children(t, d) == {p \in DOMAIN t : Len(p) = Len(d) + 1 /\ Parent(p) = d}

EmptyTree == [p \in {} |-> DirNode]

----------------------------------------------------------------------------
(* FileSynchronizer.sync_single_file *)

Ancestors(p) == {SubSeq(p, 1, i) : i \in 1..(Len(p) - 1)}

\* os.makedirs(d, exist_ok=True): every missing directory on the way to d is
\* created; a file on the way makes it raise and nothing is created.
MakeDirs(t, d) ==
    LET need == Ancestors(d) \cup (IF d = Root THEN {} ELSE {d})
    IN  IF \E a \in need : IsFile(t, a)
        THEN [ok |-> FALSE, tree |-> t]
        ELSE [ok |-> TRUE,
              tree |-> [q \in (DOMAIN t) \cup need |->
                           IF q \in DOMAIN t THEN t[q] ELSE DirNode]]

\* shutil.copy2(src, dst): a destination that is a directory receives the
\* file under the source's base name; content and modification time are
\* those of the source.  The result is the path written, or NoPath when the
\* copy raises (source missing or a directory, target a directory).
CopyTarget(s, d, p) ==
    IF ~IsFile(s, p) THEN NoPath
    ELSE LET target == IF IsDir(d, p) THEN p \o <<Basename(p)>> ELSE p
         IN  IF IsDir(d, target) THEN NoPath ELSE target

\* A copy that appends to a file that is there already.
Copy2_Appends(s, d, p) ==
    LET target == CopyTarget(s, d, p)
    IN  IF target = NoPath THEN d
        ELSE IF IsFile(d, target)
        THEN Put(d, target, FileNode(d[target].content + s[p].content + 1, s[p].mtime))
        ELSE Put(d, target, FileNode(s[p].content, s[p].mtime))

Copy2(s, d, p) ==
    LET target == CopyTarget(s, d, p)
    IN  IF target = NoPath THEN d
        ELSE Put(d, target, FileNode(s[p].content, s[p].mtime))

\* source_dir and dest_dir as absolute paths, one name per component:
\* Config.UPLOADED_FILES_PATH and Config.STORAGE_PATH of a server started in /w.
SourceDir == <<"home", "uploads">>
DestDir   == <<"w", "storage">>

\* The number of leading components two paths share.
CommonLen(a, b) ==
    CHOOSE k \in 0..Len(a) :
        /\ k <= Len(b)
        /\ SubSeq(a, 1, k) = SubSeq(b, 1, k)
        /\ (k < Len(a) /\ k < Len(b)) => a[k + 1] # b[k + 1]

\* A relpath that climbs one directory too many.
OsRelpath_OneUpTooMany(path, start) ==
    <<"..">> \o SubSeq(path, Len(start) + 1, Len(path))

\* os.path.relpath(path, start) on absolute paths: ".." for every component
\* of start after the common prefix, then the rest of path.
OsRelpath(path, start) ==
    LET k == CommonLen(path, start)
    IN  [i \in 1..(Len(start) - k) |-> ".."] \o SubSeq(path, k + 1, Len(path))

\* The place a path names once its ".." components are followed.
RECURSIVE Resolve(_)
Resolve(path) ==
    IF \E i \in 1..Len(path) : path[i] = ".."
    THEN LET i == CHOOSE j \in 1..Len(path) :
                     path[j] = ".." /\ \A h \in 1..(j - 1) : path[h] # ".."
         IN  Resolve(SubSeq(path, 1, i - 2) \o SubSeq(path, i + 1, Len(path)))
    ELSE path

\* dest_path = os.path.join(self.dest_dir, os.path.relpath(source_path,
\* self.source_dir)), as the place it names.
DestPath(sourcePath) == Resolve(DestDir \o OsRelpath(sourcePath, SourceDir))

\* A sync_single_file that mirrors a deletion: with the source file gone it
\* removes the copy.
SyncSingleFile_MirrorsDeletion(s, d, p) ==
    LET made == MakeDirs(d, Parent(p))
    IN  IF ~made.ok THEN d
        ELSE IF ~Exists(s, p) /\ IsFile(made.tree, p) THEN Remove(made.tree, p)
        ELSE Copy2(s, made.tree, p)

\* sync_single_file(source_path), p being source_path relative to source_dir.
\* Every exception is caught and logged; the directories made before a failed
\* copy stay.
SyncSingleFile(s, d, p) ==
    LET made == MakeDirs(d, Parent(p))
    IN  IF ~made.ok THEN d ELSE Copy2(s, made.tree, p)

----------------------------------------------------------------------------
(* watchdog events and SyncEventHandler *)

Event(type, isDir, p, q) ==
    [type |-> type, is_directory |-> isDir, src_path |-> p, dest_path |-> q]

NoEvent == Event("none", FALSE, NoPath, NoPath)

\* The sync_single_file calls SyncEventHandler makes for an event: on_created
\* and on_modified copy src_path, on_moved copies dest_path, on_deleted is
\* not overridden; directory events are ignored.
HandlerCalls(e) ==
    IF e.is_directory THEN << >>
    ELSE IF e.type \in {"created", "modified"} THEN <<e.src_path>>
    ELSE IF e.type = "moved" THEN <<e.dest_path>>
    ELSE << >>

RECURSIVE ApplyCalls(_, _, _)
ApplyCalls(s, d, calls) ==
    IF calls = << >> THEN d
    ELSE ApplyCalls(s, SyncSingleFile(s, d, Head(calls)), Tail(calls))

\* The emitter queues events only while the observer runs.
Watching == observer = "alive"

Emit(evs) == IF Watching THEN queue \o evs ELSE queue

CanEmit(n) == Watching => Len(queue) + n <= MaxQueue

----------------------------------------------------------------------------
(* The environment: whoever owns the upload directory *)

\* Paths the environment uses: "a" can be a file or a directory.
DirPaths  == {<<d>> : d \in DirNames}
FilePaths == {<<n>> : n \in Names} \cup {<<d, "B_c">> : d \in DirNames}

\* What a write at time t leaves in a file: every write leaves new content.
Written(t) == FileNode(t, t)

NoTool ==
    [tool |-> "none", arg |-> << >>, status |-> "none", hit |-> FALSE,
     walked |-> FALSE, root |-> "-", path |-> NoPath, searched |-> << >>,
     out |-> << >>]

\* A step that is not a tool call: the cache is left alone, and no tool call
\* has just returned.
ToolIdle == cache' = cache /\ lastTool' = NoTool

\* A change of the source leaves the synchronizer alone but for the events
\* it queues; it spoils a full scan that is running.
EnvFrame(evs) ==
    /\ queue' = Emit(evs)
    /\ scanClean' = IF mainPc \in {"walk", "schedule"} THEN FALSE ELSE scanClean
    /\ UNCHANGED <<dst, dstExists, observer, obsPc, curEv, mainPc, walkDirs, walkFiles,
                   lastCall>>
    /\ ToolIdle

EnvMkRoot ==
    /\ ~srcExists
    /\ srcExists' = TRUE
    /\ UNCHANGED <<src, clock>>
    /\ EnvFrame(<< >>)

EnvCreateFile(p) ==
    /\ srcExists /\ clock < MaxClock /\ CanEmit(1)
    /\ ~Exists(src, p) /\ IsDir(src, Parent(p))
    /\ src' = Put(src, p, Written(clock))
    /\ clock' = clock + 1
    /\ UNCHANGED srcExists
    /\ EnvFrame(<<Event("created", FALSE, p, NoPath)>>)

EnvModifyFile(p) ==
    /\ clock < MaxClock /\ CanEmit(1)
    /\ IsFile(src, p)
    /\ src' = Put(src, p, Written(clock))
    /\ clock' = clock + 1
    /\ UNCHANGED srcExists
    /\ EnvFrame(<<Event("modified", FALSE, p, NoPath)>>)

EnvMoveFile(p, q) ==
    /\ CanEmit(1)
    /\ IsFile(src, p) /\ p # q /\ ~IsDir(src, q) /\ IsDir(src, Parent(q))
    /\ src' = Put(Remove(src, p), q, src[p])
    /\ UNCHANGED <<srcExists, clock>>
    /\ EnvFrame(<<Event("moved", FALSE, p, q)>>)

EnvDeleteFile(p) ==
    /\ CanEmit(1)
    /\ IsFile(src, p)
    /\ src' = Remove(src, p)
    /\ UNCHANGED <<srcExists, clock>>
    /\ EnvFrame(<<Event("deleted", FALSE, p, NoPath)>>)

EnvMkDir(d) ==
    /\ srcExists /\ CanEmit(1)
    /\ ~Exists(src, d) /\ IsDir(src, Parent(d))
    /\ src' = Put(src, d, DirNode)
    /\ UNCHANGED <<srcExists, clock>>
    /\ EnvFrame(<<Event("created", TRUE, d, NoPath)>>)

EnvRmDir(d) ==
    /\ CanEmit(1)
    /\ d # Root /\ IsDir(src, d) /\ Children(src, d) = {}
    /\ src' = Remove(src, d)
    /\ UNCHANGED <<srcExists, clock>>
    /\ EnvFrame(<<Event("deleted", TRUE, d, NoPath)>>)

Env ==
    \/ EnvMkRoot
    \/ \E p \in FilePaths : EnvCreateFile(p)
    \/ \E p \in FilePaths : EnvModifyFile(p)
    \/ \E p \in FilePaths, q \in FilePaths : EnvMoveFile(p, q)
    \/ \E p \in FilePaths : EnvDeleteFile(p)
    \/ \E d \in DirPaths : EnvMkDir(d)
    \/ \E d \in DirPaths : EnvRmDir(d)

----------------------------------------------------------------------------
(* FileSynchronizer.start_watching, sync_all_files, stop_watching *)

EnvUnchanged == UNCHANGED <<srcExists, src, clock>>

Call(op, ret) == [op |-> op, ret |-> ret]

\* A start_watching without the check of the source directory.
StartWatching_NoSourceCheck ==
    /\ mainPc = "idle"
    /\ IF observer = "alive"
       THEN /\ lastCall' = Call("start_watching", "already_running")
            /\ UNCHANGED <<mainPc, walkDirs, scanClean>>
       ELSE /\ lastCall' = Call("start_watching", "scanning")
            /\ mainPc' = "walk"
            /\ walkDirs' = {Root}
            /\ scanClean' = TRUE
    /\ UNCHANGED <<dst, dstExists, observer, queue, obsPc, curEv, walkFiles>>
    /\ EnvUnchanged /\ ToolIdle

\* A start_watching without the check for an observer that is alive.
StartWatching_NoAliveCheck ==
    /\ mainPc = "idle"
    /\ IF ~srcExists
       THEN /\ lastCall' = Call("start_watching", "no_source")
            /\ UNCHANGED <<mainPc, walkDirs, scanClean>>
       ELSE /\ lastCall' = Call("start_watching", "scanning")
            /\ mainPc' = "walk"
            /\ walkDirs' = {Root}
            /\ scanClean' = TRUE
    /\ UNCHANGED <<dst, dstExists, observer, queue, obsPc, curEv, walkFiles>>
    /\ EnvUnchanged /\ ToolIdle

\* start_watching up to the call of sync_all_files: the two early returns,
\* else the walk begins at the source root.
StartWatching ==
    /\ mainPc = "idle"
    /\ IF observer = "alive"
       THEN /\ lastCall' = Call("start_watching", "already_running")
            /\ UNCHANGED <<mainPc, walkDirs, scanClean>>
       ELSE IF ~srcExists
       THEN /\ lastCall' = Call("start_watching", "no_source")
            /\ UNCHANGED <<mainPc, walkDirs, scanClean>>
       ELSE /\ lastCall' = Call("start_watching", "scanning")
            /\ mainPc' = "walk"
            /\ walkDirs' = {Root}
            /\ scanClean' = TRUE
    /\ UNCHANGED <<dst, dstExists, observer, queue, obsPc, curEv, walkFiles>>
    /\ EnvUnchanged /\ ToolIdle

\* One iteration of `for root, dirs, files in os.walk(source_dir)` up to the
\* inner loop: the directory is listed now, its counterpart is made in the
\* destination, its subdirectories are queued for the walk.
WalkDir(d) ==
    /\ mainPc = "walk" /\ walkFiles = {} /\ d \in walkDirs
    /\ IF ~IsDir(src, d)
       THEN /\ walkDirs' = walkDirs \ {d}
            /\ UNCHANGED <<dst, dstExists, walkFiles>>
       ELSE LET made == IF Exists(dst, d) THEN [ok |-> TRUE, tree |-> dst]
                        ELSE MakeDirs(dst, d)
            IN  IF ~made.ok
                THEN \* the exception leaves the loop: sync_all_files returns 0
                     /\ walkDirs' = {}
                     /\ UNCHANGED <<dst, dstExists, walkFiles>>
                ELSE /\ dst' = made.tree
                     /\ dstExists' = TRUE
                     /\ walkFiles' = {p \in Children(src, d) : IsFile(src, p)}
                     /\ walkDirs' = (walkDirs \ {d})
                                      \cup {p \in Children(src, d) : IsDir(src, p)}
    /\ UNCHANGED <<observer, queue, obsPc, curEv, mainPc, scanClean, lastCall>>
    /\ EnvUnchanged /\ ToolIdle

\* One iteration of `for file_name in files`.
CopyNext(f) ==
    /\ mainPc = "walk" /\ f \in walkFiles
    /\ dst' = SyncSingleFile(src, dst, f)
    /\ dstExists' = TRUE
    /\ walkFiles' = walkFiles \ {f}
    /\ UNCHANGED <<observer, queue, obsPc, curEv, mainPc, walkDirs, scanClean,
                   lastCall>>
    /\ EnvUnchanged /\ ToolIdle

\* The walk is exhausted: sync_all_files returns to start_watching.
ScanReturns ==
    /\ mainPc = "walk" /\ walkFiles = {} /\ walkDirs = {}
    /\ mainPc' = "schedule"
    /\ UNCHANGED <<dst, dstExists, observer, queue, obsPc, curEv, walkDirs, walkFiles,
                   scanClean, lastCall>>
    /\ EnvUnchanged /\ ToolIdle

\* The observer is created, scheduled on the source directory and started.
StartObserver ==
    /\ mainPc = "schedule"
    /\ observer' = "alive"
    /\ queue' = << >>
    /\ mainPc' = "idle"
    /\ scanClean' = TRUE
    /\ lastCall' = Call("start_watching", "started")
    /\ UNCHANGED <<dst, dstExists, obsPc, curEv, walkDirs, walkFiles>>
    /\ EnvUnchanged /\ ToolIdle

\* A stop_watching without the check for None: observer.stop() raises on None.
StopWatching_NoNoneCheck ==
    /\ mainPc = "idle"
    /\ IF observer = "None"
       THEN /\ lastCall' = Call("stop_watching", "raised")
            /\ UNCHANGED <<observer, mainPc>>
       ELSE /\ observer' = "stopped"
            /\ mainPc' = "join"
            /\ lastCall' = Call("stop_watching", "stopping")
    /\ UNCHANGED <<dst, dstExists, queue, obsPc, curEv, walkDirs, walkFiles, scanClean>>
    /\ EnvUnchanged /\ ToolIdle

\* stop_watching up to observer.join(): the early return, else observer.stop().
StopWatching ==
    /\ mainPc = "idle"
    /\ IF observer = "None"
       THEN /\ lastCall' = Call("stop_watching", "not_started")
            /\ UNCHANGED <<observer, mainPc>>
       ELSE /\ observer' = "stopped"
            /\ mainPc' = "join"
            /\ lastCall' = Call("stop_watching", "stopping")
    /\ UNCHANGED <<dst, dstExists, queue, obsPc, curEv, walkDirs, walkFiles, scanClean>>
    /\ EnvUnchanged /\ ToolIdle

\* A stop_watching that clears the reference without joining the thread.
JoinObserver_NoJoin ==
    /\ mainPc = "join"
    /\ observer' = "None"
    /\ queue' = << >>
    /\ mainPc' = "idle"
    /\ lastCall' = Call("stop_watching", "stopped")
    /\ UNCHANGED <<dst, dstExists, obsPc, curEv, walkDirs, walkFiles, scanClean>>
    /\ EnvUnchanged /\ ToolIdle

\* observer.join() returns once the observer thread has ended, which it does
\* after the handler it is running; then the reference is cleared.
JoinObserver ==
    /\ mainPc = "join" /\ obsPc = "idle"
    /\ observer' = "None"
    /\ queue' = << >>
    /\ mainPc' = "idle"
    /\ lastCall' = Call("stop_watching", "stopped")
    /\ UNCHANGED <<dst, dstExists, obsPc, curEv, walkDirs, walkFiles, scanClean>>
    /\ EnvUnchanged /\ ToolIdle

----------------------------------------------------------------------------
(* The observer thread *)

\* The thread takes the next event off its queue while it is running.
Dispatch ==
    /\ observer = "alive" /\ obsPc = "idle" /\ queue # << >>
    /\ curEv' = Head(queue)
    /\ queue' = Tail(queue)
    /\ obsPc' = "handling"
    /\ UNCHANGED <<dst, dstExists, observer, mainPc, walkDirs, walkFiles, scanClean,
                   lastCall>>
    /\ EnvUnchanged /\ ToolIdle

\* The handler of SyncEventHandler runs on the event taken.
Handle ==
    /\ obsPc = "handling"
    /\ dst' = ApplyCalls(src, dst, HandlerCalls(curEv))
    \* os.makedirs in sync_single_file makes the storage root again if it is gone
    /\ dstExists' = (dstExists \/ HandlerCalls(curEv) # << >>)
    /\ obsPc' = "idle"
    /\ curEv' = NoEvent
    /\ UNCHANGED <<observer, queue, mainPc, walkDirs, walkFiles, scanClean, lastCall>>
    /\ EnvUnchanged /\ ToolIdle

----------------------------------------------------------------------------

\* FileSynchronizer.__init__ with nothing uploaded or stored yet.
Init ==
    /\ srcExists \in BOOLEAN
    /\ src = EmptyTree
    /\ dst = EmptyTree
    /\ dstExists = TRUE
    /\ clock = 0
    /\ observer = "None"
    /\ queue = << >>
    /\ obsPc = "idle"
    /\ curEv = NoEvent
    /\ mainPc = "idle"
    /\ walkDirs = {}
    /\ walkFiles = {}
    /\ scanClean = TRUE
    /\ lastCall = Call("none", "none")
    /\ cache = {}
    /\ lastTool = NoTool

Next ==
    \/ Env
    \/ StartWatching
    \/ \E d \in DirPaths \cup {Root} : WalkDir(d)
    \/ \E f \in FilePaths : CopyNext(f)
    \/ ScanReturns
    \/ StartObserver
    \/ StopWatching
    \/ JoinObserver
    \/ Dispatch
    \/ Handle

Spec == Init /\ [][Next]_vars

----------------------------------------------------------------------------
(* Names as strings of characters *)

\* The characters of each name the model uses.
Chars(n) ==
    CASE n = "a"       -> <<"a">>
      [] n = "B_c"     -> <<"B", "_", "c">>
      [] n = " "       -> <<" ">>
      [] n = ".git"    -> <<".", "g", "i", "t">>
      [] n = "main.py" -> <<"m", "a", "i", "n", ".", "p", "y">>
      [] n = "w"       -> <<"w">>
      [] n = "storage" -> <<"s", "t", "o", "r", "a", "g", "e">>

\* str.lower() on one character.
LowerChar(ch) ==
    CASE ch = "A" -> "a"
      [] ch = "B" -> "b"
      [] ch = "C" -> "c"
      [] OTHER    -> ch

Lower(str) == [i \in 1..Len(str) |-> LowerChar(str[i])]

\* A normalization that trades hyphens for underscores as well.
NormalizeName_Swaps(str) ==
    [i \in 1..Len(str) |-> IF LowerChar(str[i]) = "_" THEN "-"
                           ELSE IF LowerChar(str[i]) = "-" THEN "_"
                           ELSE LowerChar(str[i])]

\* normalize_name: name.lower().replace('_', '-')
NormalizeName(str) ==
    [i \in 1..Len(str) |-> IF LowerChar(str[i]) = "_" THEN "-" ELSE LowerChar(str[i])]

\* Python's `needle in hay` on strings.
Contains(needle, hay) ==
    \E i \in 0..(Len(hay) - Len(needle)) : SubSeq(hay, i + 1, i + Len(needle)) = needle

\* str.strip()
RECURSIVE Strip(_)
Strip(str) ==
    IF str = << >> THEN str
    ELSE IF Head(str) = " " THEN Strip(Tail(str))
    ELSE IF str[Len(str)] = " " THEN Strip(SubSeq(str, 1, Len(str) - 1))
    ELSE str

\* os.path.relpath(full_path, search_path) as a string: the names joined by "/".
RECURSIVE RelPath(_)
RelPath(p) ==
    IF p = << >> THEN << >>
    ELSE IF Len(p) = 1 THEN Chars(p[1])
    ELSE Chars(p[1]) \o <<"/">> \o RelPath(Tail(p))

----------------------------------------------------------------------------
(* Search roots and the directory walk of find_file_in_paths *)

\* Config.get_search_paths(): the storage root, then the upload root if it
\* exists now.
GetSearchPaths == IF srcExists THEN <<"storage", "uploads">> ELSE <<"storage">>

TreeOf(root) == IF root = "storage" THEN dst ELSE src

\* os.path.exists(search_path)
RootExists(root) == IF root = "storage" THEN dstExists ELSE srcExists

\* os.walk with `dirs[:] = [d for d in dirs if d != '.git']` does not enter a
\* directory named .git.
UnderGit(p) == \E i \in 1..(Len(p) - 1) : p[i] = ".git"

\* The match of find_file_in_paths: the normalized query is in the normalized
\* file name or in the normalized relative path.
Matches(q, p) ==
    \/ Contains(NormalizeName(q), NormalizeName(Chars(Basename(p))))
    \/ Contains(NormalizeName(q), NormalizeName(RelPath(p)))

\* The walk is top-down: the entries of a directory are tested before those
\* of the directories below it; the order among the entries of one directory
\* and among sibling directories is the file system's.  Of the matching paths
\* the walk can meet first any one that has no match in a directory above it.
FirstMet(matching) ==
    {p \in matching :
        \A m \in matching :
            ~(Len(Parent(m)) < Len(Parent(p))
              /\ SubSeq(Parent(p), 1, Len(Parent(m))) = Parent(m))}

FileMatches(t, q) ==
    FirstMet({p \in DOMAIN t : IsFile(t, p) /\ ~UnderGit(p) /\ Matches(q, p)})

\* A search that takes the roots from the last to the first.
FindFileInPaths_LastRootFirst(q, roots) ==
    LET has(i) == RootExists(roots[i]) /\ FileMatches(TreeOf(roots[i]), q) # {}
    IN  IF \E i \in 1..Len(roots) : has(i)
        THEN LET last == CHOOSE i \in 1..Len(roots) :
                            has(i) /\ \A j \in (i + 1)..Len(roots) : ~has(j)
             IN  {<<roots[last], p>> : p \in FileMatches(TreeOf(roots[last]), q)}
        ELSE {}

\* find_file_in_paths: the roots in order, the first root with a match wins.
\* The result is the set of paths the call can return, as <<root, path>>.
RECURSIVE FindFileInPaths(_, _)
FindFileInPaths(q, roots) ==
    IF roots = << >> THEN {}
    ELSE IF ~RootExists(Head(roots)) THEN FindFileInPaths(q, Tail(roots))
    ELSE LET here == FileMatches(TreeOf(Head(roots)), q)
         IN  IF here # {} THEN {<<Head(roots), p>> : p \in here}
             ELSE FindFileInPaths(q, Tail(roots))

DirMatches(t, q) ==
    FirstMet({p \in DOMAIN t :
                 /\ IsDir(t, p) /\ ~UnderGit(p) /\ Basename(p) # ".git"
                 /\ Matches(q, p)})

\* find_directory_in_paths
RECURSIVE FindDirectoryInPaths(_, _)
FindDirectoryInPaths(q, roots) ==
    IF roots = << >> THEN {}
    ELSE IF ~RootExists(Head(roots)) THEN FindDirectoryInPaths(q, Tail(roots))
    ELSE LET here == DirMatches(TreeOf(Head(roots)), q)
         IN  IF here # {} THEN {<<Head(roots), p>> : p \in here}
             ELSE FindDirectoryInPaths(q, Tail(roots))

----------------------------------------------------------------------------
(* build_files and the filename cache *)

DefaultMaxDepth == 100

\* The working directory holds the storage root (Config.STORAGE_PATH is
\* os.getcwd()/storage) and the server's own files.
CwdFiles == {"main.py"}

\* The files build_files(d) meets below directory d of tree t: _list_dir
\* lists a directory's files, then enters its subdirectories other than .git
\* while current_depth < max_depth.
ListedFiles(t, d, maxDepth) ==
    {p \in DOMAIN t :
        /\ IsFile(t, p)
        /\ Len(p) > Len(d) /\ SubSeq(p, 1, Len(d)) = d
        /\ \A i \in (Len(d) + 1)..(Len(p) - 1) : p[i] # ".git"
        /\ Len(p) - Len(d) - 1 <= maxDepth}

ListedNames(t, d, maxDepth) == {Basename(p) : p \in ListedFiles(t, d, maxDepth)}

\* A listing that replaces the cache by what it found.
CacheUpdate_Replaces(c, names) == names

\* list_of_files.update(files)
CacheUpdate(c, names) == c \cup names

\* A lookup that lowers the query and not the cached name.
CheckFileExists_CaseSensitive(q, c) == {f \in c : Contains(Lower(q), Chars(f))}

\* FileReader.check_file_exists: the cached names the lookup can return; none
\* makes it raise CustomFileNotFoundError.
CheckFileExists(q, c) == {f \in c : Contains(Lower(q), Lower(Chars(f)))}

----------------------------------------------------------------------------
(* The tools of main.py.  A tool call runs to completion in the foreground *)
(* thread.                                                                 *)

Result(tool, arg, status, hit, walked, root, path) ==
    [tool |-> tool, arg |-> arg, status |-> status, hit |-> hit,
     walked |-> walked, root |-> root, path |-> path, searched |-> << >>,
     out |-> << >>]

\* A tool is called when the foreground thread is free and the previous call
\* has handed over its result; it leaves the synchronizer alone.
ToolReady == mainPc = "idle" /\ lastTool = NoTool

ToolFrame ==
    UNCHANGED <<srcExists, src, clock, observer, queue, obsPc, curEv, mainPc,
                walkDirs, walkFiles, scanClean, lastCall>>

\* The string a tool returned has gone to the caller.
Respond ==
    /\ lastTool # NoTool
    /\ lastTool' = NoTool
    /\ UNCHANGED <<srcExists, src, dst, dstExists, clock, observer, queue, obsPc, curEv,
                   mainPc, walkDirs, walkFiles, scanClean, lastCall, cache>>

\* A read_file without the inner try: the miss of the cache lookup reaches the
\* handler of CustomFileNotFoundError and is the result.
ReadFileResults_MissIsError(arg, c) ==
    IF arg = << >> \/ Strip(arg) = << >>
    THEN {Result("read_file", arg, "error_empty", FALSE, FALSE, "-", NoPath)}
    ELSE LET q     == Strip(arg)
             hit   == {f \in c : Contains(Lower(q), Lower(Chars(f)))} # {}
             found == FindFileInPaths(q, GetSearchPaths)
         IN  IF ~hit
             THEN {Result("read_file", arg, "error_not_found", FALSE, FALSE, "-", NoPath)}
             ELSE IF found = {}
             THEN {[Result("read_file", arg, "error_not_found", hit, TRUE, "-", NoPath)
                      EXCEPT !.searched = GetSearchPaths]}
             ELSE {Result("read_file", arg, "ok", hit, TRUE, f[1], f[2]) : f \in found}

\* A read_file whose not-found message names only the roots that exist.
ReadFileResults_NamesExistingRoots(arg, c) ==
    IF arg = << >> \/ Strip(arg) = << >>
    THEN {Result("read_file", arg, "error_empty", FALSE, FALSE, "-", NoPath)}
    ELSE LET q     == Strip(arg)
             hit   == {f \in c : Contains(Lower(q), Lower(Chars(f)))} # {}
             found == FindFileInPaths(q, GetSearchPaths)
         IN  IF found = {}
             THEN {[Result("read_file", arg, "error_not_found", hit, TRUE, "-", NoPath)
                      EXCEPT !.searched = SelectSeq(GetSearchPaths, RootExists)]}
             ELSE {Result("read_file", arg, "ok", hit, TRUE, f[1], f[2]) : f \in found}

\* read_file: what the call can return with cache c.  The cache lookup comes
\* first and its outcome is only logged; the search of the roots follows in
\* either case and decides the result.
ReadFileResults(arg, c) ==
    IF arg = << >> \/ Strip(arg) = << >>
    THEN {Result("read_file", arg, "error_empty", FALSE, FALSE, "-", NoPath)}
    ELSE LET q     == Strip(arg)
             hit   == CheckFileExists(q, c) # {}
             found == FindFileInPaths(q, GetSearchPaths)
         IN  IF found = {}
             THEN {[Result("read_file", arg, "error_not_found", hit, TRUE, "-", NoPath)
                      EXCEPT !.searched = GetSearchPaths]}
             ELSE {Result("read_file", arg, "ok", hit, TRUE, f[1], f[2]) : f \in found}

ReadFile(arg) ==
    /\ ToolReady
    /\ lastTool' \in ReadFileResults(arg, cache)
    /\ UNCHANGED <<dst, dstExists, cache>>
    /\ ToolFrame

\* build_files on a directory found: the names it adds to the cache.
ListFound(f) == ListedNames(TreeOf(f[1]), f[2], DefaultMaxDepth)

\* build_files on the working directory.
ListCwd == CwdFiles \cup ListedNames(dst, Root, DefaultMaxDepth - 1)

\* list_files(directory)
ListFiles(arg) ==
    /\ ToolReady
    /\ IF arg \in {<<".">>, << >>}
       THEN /\ cache' = CacheUpdate(cache,
                   ListedNames(dst, Root, DefaultMaxDepth)
                     \cup (IF srcExists THEN ListedNames(src, Root, DefaultMaxDepth)
                           ELSE {}))
            /\ lastTool' = Result("list_files", arg, "ok", FALSE, FALSE, "-", NoPath)
       ELSE LET q     == Strip(arg)
                found == FindDirectoryInPaths(q, GetSearchPaths)
            IN  IF found # {}
                THEN \E f \in found :
                       /\ cache' = CacheUpdate(cache, ListFound(f))
                       /\ lastTool' = Result("list_files", arg, "ok", FALSE, TRUE,
                                             f[1], f[2])
                ELSE IF q = << >>
                THEN \* os.path.abspath("") is the working directory
                     /\ cache' = CacheUpdate(cache, ListCwd)
                     /\ lastTool' = Result("list_files", arg, "ok", FALSE, TRUE,
                                           "cwd", Root)
                ELSE \* build_files raises DirectoryAccessError
                     /\ cache' = cache
                     /\ lastTool' = Result("list_files", arg, "error_no_directory",
                                           FALSE, TRUE, "-", NoPath)
    /\ UNCHANGED <<dst, dstExists>>
    /\ ToolFrame

\* list_files_within_folder(folder_name)
ListFilesWithinFolder(arg) ==
    /\ ToolReady
    /\ LET q     == Strip(arg)
           found == FindDirectoryInPaths(q, GetSearchPaths)
       IN  IF found # {}
           THEN \E f \in found :
                  /\ cache' = CacheUpdate(cache, ListFound(f))
                  /\ lastTool' = Result("list_files_within_folder", arg, "ok", FALSE,
                                        TRUE, f[1], f[2])
           ELSE /\ cache' = cache
                /\ lastTool' = Result("list_files_within_folder", arg,
                                      "error_not_found", FALSE, TRUE, "-", NoPath)
    /\ UNCHANGED <<dst, dstExists>>
    /\ ToolFrame

\* url.startswith(prefix)
StartsWith(str, prefix) ==
    Len(str) >= Len(prefix) /\ SubSeq(str, 1, Len(prefix)) = prefix

EndsWith(str, suffix) ==
    Len(str) >= Len(suffix)
      /\ SubSeq(str, Len(str) - Len(suffix) + 1, Len(str)) = suffix

\* url.rstrip('/')
RECURSIVE RStripSlash(_)
RStripSlash(str) ==
    IF str # << >> /\ str[Len(str)] = "/"
    THEN RStripSlash(SubSeq(str, 1, Len(str) - 1))
    ELSE str

\* str.split('/')[-1]
RECURSIVE LastSegment(_)
LastSegment(str) ==
    IF \E i \in 1..Len(str) : str[i] = "/"
    THEN LastSegment(Tail(str))
    ELSE str

DotGit == <<".", "g", "i", "t">>

\* The repository name clone_github_repo derives from the URL.
RepoName(url) ==
    LET seg == LastSegment(RStripSlash(url))
    IN  IF EndsWith(seg, DotGit) THEN SubSeq(seg, 1, Len(seg) - 4) ELSE seg

AcceptedScheme(url) ==
    \/ StartsWith(url, <<"h", "t", "t", "p", ":", "/", "/">>)
    \/ StartsWith(url, <<"h", "t", "t", "p", "s", ":", "/", "/">>)
    \/ StartsWith(url, <<"g", "i", "t", "@">>)

AllNames == Names \cup CwdFiles \cup {".git", " ", "w", "storage"}

\* The directory entry whose name has these characters.
NameOf(str) == CHOOSE n \in AllNames : Chars(n) = str

\* What `git clone` leaves at the destination: the work tree and .git.
ClonedTree(t, repo, now) ==
    LET new == {<<repo>>, <<repo, "B_c">>, <<repo, ".git">>, <<repo, ".git", "a">>}
    IN  [p \in (DOMAIN t) \cup new |->
            IF p \notin new THEN t[p]
            ELSE IF p \in {<<repo>>, <<repo, ".git">>} THEN DirNodeAt(now)
            ELSE FileNode(-1, now)]

CloneOutcomes == {"success", "timeout", "nonzero_exit", "no_git"}

\* Config.STORAGE_PATH, os.path.join(os.getcwd(), "storage"), for a server
\* started in the directory /w.
StoragePath == <<"/">> \o Chars("w") \o <<"/">> \o Chars("storage")

\* repo_destination = os.path.join(Config.STORAGE_PATH, repo_name)
RepoDestination(repo) == StoragePath \o <<"/">> \o Chars(repo)

\* A check that never finds the destination.
DestinationExists_Never(t, repo) == FALSE

\* os.path.exists(repo_destination)
DestinationExists(t, repo) == Exists(t, <<repo>>)

\* update_list_of_files(repo_destination) once storage holds the tree t: it
\* is list_files on the absolute path of the destination, which first hands
\* the path to find_directory_in_paths as a query and lists the directory
\* that matches, if one does; only without a match is the path itself
\* listed.  The result is the set of the sets of names the call can add.
UpdateListOfFiles(t, repo) ==
    LET q         == Strip(RepoDestination(repo))
        inStorage == DirMatches(t, q)
        inUploads == IF srcExists THEN DirMatches(src, q) ELSE {}
    IN  IF inStorage # {}
        THEN {ListedNames(t, p, DefaultMaxDepth) : p \in inStorage}
        ELSE IF inUploads # {}
        THEN {ListedNames(src, p, DefaultMaxDepth) : p \in inUploads}
        ELSE {ListedNames(t, <<repo>>, DefaultMaxDepth)}

\* clone_github_repo gets as far as running the external command.
CloneRuns(arg) ==
    /\ Strip(arg) # << >>
    /\ AcceptedScheme(Strip(arg))
    /\ RepoName(Strip(arg)) # << >>
    /\ ~DestinationExists(dst, NameOf(RepoName(Strip(arg))))

\* clone_github_repo(url); outcome is how the external git command ends, and
\* is drawn only when the command runs.
CloneGithubRepo(arg, outcome) ==
    /\ ToolReady
    /\ outcome # "success" => CloneRuns(arg)
    /\ LET url == Strip(arg)
       IN  IF arg = << >> \/ url = << >>
           THEN /\ lastTool' = Result("clone_github_repo", arg, "error_empty", FALSE,
                                      FALSE, "-", NoPath)
                /\ UNCHANGED <<dst, dstExists, cache>>
           ELSE IF ~AcceptedScheme(url)
           THEN /\ lastTool' = Result("clone_github_repo", arg, "error_scheme", FALSE,
                                      FALSE, "-", NoPath)
                /\ UNCHANGED <<dst, dstExists, cache>>
           ELSE IF RepoName(url) = << >>
           THEN /\ lastTool' = Result("clone_github_repo", arg, "error_no_name", FALSE,
                                      FALSE, "-", NoPath)
                /\ UNCHANGED <<dst, dstExists, cache>>
           ELSE LET repo == NameOf(RepoName(url))
                IN  IF DestinationExists(dst, repo)
                    THEN /\ lastTool' = Result("clone_github_repo", arg,
                                               "warning_exists", FALSE, FALSE,
                                               "storage", <<repo>>)
                         /\ UNCHANGED <<dst, dstExists, cache>>
                    ELSE IF outcome = "success"
                    THEN \* update_list_of_files(repo_destination)
                         /\ dst' = ClonedTree(dst, repo, clock)
                         /\ dstExists' = TRUE
                         /\ \E names \in UpdateListOfFiles(ClonedTree(dst, repo, clock),
                                                            repo) :
                               cache' = CacheUpdate(cache, names)
                         /\ lastTool' = Result("clone_github_repo", arg, "ok", FALSE,
                                               FALSE, "storage", <<repo>>)
                    ELSE /\ lastTool' = Result("clone_github_repo", arg,
                                               "error_" \o outcome, FALSE, FALSE,
                                               "-", NoPath)
                         /\ UNCHANGED <<dst, dstExists, cache>>
    /\ ToolFrame

----------------------------------------------------------------------------
(* build_files in full: the text it returns, as the sequence of its         *)
(* "Directory:" blocks                                                      *)

\* ord() of the characters the names are made of.
CodePoint(ch) ==
    CASE ch = " " -> 32  [] ch = "." -> 46  [] ch = "/" -> 47
      [] ch = "B" -> 66  [] ch = "_" -> 95  [] ch = "a" -> 97
      [] ch = "c" -> 99  [] ch = "g" -> 103 [] ch = "i" -> 105
      [] ch = "m" -> 109 [] ch = "n" -> 110 [] ch = "p" -> 112
      [] ch = "t" -> 116 [] ch = "y" -> 121

\* x < y on Python strings.
RECURSIVE StrLess(_, _)
StrLess(x, y) ==
    IF y = << >> THEN FALSE
    ELSE IF x = << >> THEN TRUE
    ELSE IF Head(x) # Head(y) THEN CodePoint(Head(x)) < CodePoint(Head(y))
    ELSE StrLess(Tail(x), Tail(y))

NameLess(m, n) == StrLess(Chars(m), Chars(n))

\* The names of a list as the list is given: no sorting.
Sorted_AsListed(names) == names

\* sorted(names) on a list of names.
Sorted(names) == SortSeq(names, NameLess)

\* os.listdir(path): the entries of the directory in the order the file
\* system gives them, which is the order of listing among all names.
Listdir(t, path, listing) ==
    LET Here(n) == path \o <<n>> \in DOMAIN t
    IN  SelectSeq(listing, Here)

NoName == "-"

\* get_most_recent_directory(path): None when the directory cannot be listed
\* or has no subdirectory other than .git and .github; else the first of the
\* subdirectories of greatest mtime in the order of os.listdir (the sort by
\* mtime is stable).
GetMostRecentDirectory(t, path, listing, denied) ==
    IF path \in denied THEN NoName
    ELSE LET IsCandidate(n) == IsDir(t, path \o <<n>>) /\ n \notin {".git", ".github"}
             dirs == SelectSeq(Listdir(t, path, listing), IsCandidate)
         IN  IF dirs = << >> THEN NoName
             ELSE LET Newest(i) == \A j \in 1..Len(dirs) :
                                      t[path \o <<dirs[j]>>].mtime
                                        <= t[path \o <<dirs[i]>>].mtime
                      first == CHOOSE i \in 1..Len(dirs) :
                                  Newest(i) /\ \A j \in 1..(i - 1) : ~Newest(j)
                  IN  dirs[first]

\* The block of a directory that could not be listed.
ErrorBlock(path) ==
    [path |-> path, error |-> TRUE, subdirs |-> << >>, files |-> << >>]

\* _list_dir(path, current_depth): the block of the directory, then the blocks
\* of its subdirectories in sorted order while current_depth < max_depth.  A
\* directory whose os.listdir raises gets the error block and the walk goes on.
RECURSIVE ListDir(_, _, _, _, _, _, _)
RECURSIVE ListEach(_, _, _, _, _, _, _, _)
ListDir(t, path, depth, maxDepth, listing, denied, recent) ==
    IF path \in denied THEN <<ErrorBlock(path)>>
    ELSE LET items == Listdir(t, path, listing)
             IsSub(n)  == IsDir(t, path \o <<n>>) /\ n # ".git"
             IsItem(n) == IsFile(t, path \o <<n>>)
             dirs  == Sorted(SelectSeq(items, IsSub))
             block == [path    |-> path,
                       error   |-> FALSE,
                       subdirs |-> [i \in 1..Len(dirs) |->
                                      [name   |-> dirs[i],
                                       recent |-> depth = 0 /\ dirs[i] = recent]],
                       files   |-> Sorted(SelectSeq(items, IsItem))]
         IN  <<block>> \o
             (IF depth < maxDepth
              THEN ListEach(t, path, dirs, depth + 1, maxDepth, listing, denied, recent)
              ELSE << >>)

ListEach(t, path, dirs, depth, maxDepth, listing, denied, recent) ==
    IF dirs = << >> THEN << >>
    ELSE ListDir(t, path \o <<Head(dirs)>>, depth, maxDepth, listing, denied, recent)
           \o ListEach(t, path, Tail(dirs), depth, maxDepth, listing, denied, recent)

\* A build_files that goes one level further down than max_depth.
BuildFiles_OneLevelMore(t, d, maxDepth, listing, denied) ==
    ListDir(t, d, 0, maxDepth + 1, listing, denied,
            GetMostRecentDirectory(t, d, listing, denied))

\* A build_files that gives up at the first directory it cannot list.
BuildFiles_AbortsOnError(t, d, maxDepth, listing, denied) ==
    LET out == ListDir(t, d, 0, maxDepth, listing, denied,
                       GetMostRecentDirectory(t, d, listing, denied))
    IN  IF \E i \in 1..Len(out) : out[i].error THEN <<ErrorBlock(d)>> ELSE out

\* build_files(directory, max_depth) on directory d of tree t.
BuildFiles(t, d, maxDepth, listing, denied) ==
    ListDir(t, d, 0, maxDepth, listing, denied,
            GetMostRecentDirectory(t, d, listing, denied))

\* The names build_files puts into the cache: the files of every block.
NamesListed(out) == UNION {{out[i].files[j] : j \in 1..Len(out[i].files)} : i \in 1..Len(out)}

----------------------------------------------------------------------------
(* read_latest_content *)

\* What a file holds, as far as reading it goes: text, bytes with a null
\* byte among the first Config.BINARY_CHECK_BYTES, or bytes that open() is
\* refused.
TextBytes == 0
NullBytes == -2
NoAccess  == -3

FileClasses == {TextBytes, NullBytes, NoAccess}

\* The orders in which os.listdir can give the names.
ListdirOrders == {<<" ", ".git", "B_c", "a", "main.py">>,
                  <<"main.py", "a", "B_c", ".git", " ">>}

ImageExtensions ==
    {<<".", "p", "n", "g">>, <<".", "j", "p", "g">>, <<".", "j", "p", "e", "g">>,
     <<".", "g", "i", "f">>, <<".", "b", "m", "p">>, <<".", "w", "e", "b", "p">>,
     <<".", "s", "v", "g">>}

\* Config.is_image_file
IsImageFile(n) == \E ext \in ImageExtensions : EndsWith(Lower(Chars(n)), ext)

\* Config.is_pdf_file
IsPdfFile(n) == EndsWith(Lower(Chars(n)), <<".", "p", "d", "f">>)

\* FileReader.read_text_file: how the call ends.  filereader.py imports
\* FileNotFoundError and FileReadError from exceptions and no more, so the
\* name InvalidFileTypeError is unbound there: `raise InvalidFileTypeError(...)`
\* on a null byte raises NameError, and so does the isinstance test in the
\* handler that any exception of the binary check reaches.
ReadTextFile(content) ==
    IF content \in {NullBytes, NoAccess} THEN "NameError"
    ELSE "returns"

\* What read_latest_content puts below "--- File: ... ---" for one file.
RenderFile(n, content) ==
    IF IsImageFile(n) THEN "[Image File]"
    ELSE IF IsPdfFile(n) THEN "pdf text"
    ELSE LET end == ReadTextFile(content)
         IN  IF end = "returns" THEN "content"
             ELSE IF end = "InvalidFileTypeError" THEN "[Binary File]"
             ELSE "Error: " \o end

ReservedNames == {".git", ".github", ".DS_Store"}

\* The items of the storage root in the order of os.listdir, reserved names
\* skipped.
LatestItems(t, listing) ==
    LET Kept(n) == n \notin ReservedNames
    IN  SelectSeq(Listdir(t, Root, listing), Kept)

\* A choice of the item that os.listdir gives first, whatever its mtime.
LatestItem_FirstListed(t, listing) == LatestItems(t, listing)[1]

\* items.sort(key=mtime, reverse=True); items[0]: the first, in the order of
\* os.listdir, of the items of greatest mtime.
LatestItem(t, listing) ==
    LET items == LatestItems(t, listing)
        Newest(i) == \A j \in 1..Len(items) : t[<<items[j]>>].mtime <= t[<<items[i]>>].mtime
    IN  items[CHOOSE i \in 1..Len(items) : Newest(i) /\ \A j \in 1..(i - 1) : ~Newest(j)]

\* The "--- File: ... ---" sections for item n: the item itself if it is a
\* file, else every file below it that os.walk meets with .git left out.
LatestFiles(t, n) ==
    IF IsFile(t, <<n>>)
    THEN {[path |-> <<n>>, shown |-> RenderFile(n, t[<<n>>].content)]}
    ELSE {[path |-> SubSeq(p, 2, Len(p)), shown |-> RenderFile(Basename(p), t[p].content)] :
            p \in {q \in DOMAIN t :
                     /\ IsFile(t, q) /\ Len(q) > 1 /\ q[1] = n
                     /\ \A i \in 2..(Len(q) - 1) : q[i] # ".git"}}

\* read_latest_content(); it reads the storage root and leaves the cache
\* alone.
ReadLatestContent(listing) ==
    /\ ToolReady
    /\ lastTool' =
         IF ~dstExists
         THEN Result("read_latest_content", listing, "error_no_storage", FALSE, FALSE,
                     "-", NoPath)
         ELSE IF LatestItems(dst, listing) = << >>
         THEN Result("read_latest_content", listing, "empty", FALSE, FALSE, "-", NoPath)
         ELSE LET n == LatestItem(dst, listing)
              IN  [Result("read_latest_content", listing, "ok", FALSE, FALSE,
                          "storage", <<n>>)
                     EXCEPT !.out = LatestFiles(dst, n)]
    /\ UNCHANGED <<dst, dstExists, cache>>
    /\ ToolFrame

----------------------------------------------------------------------------
(* The strings the tools return *)

\* The text a tool's return statement begins with, up to the first value it
\* formats in; a success begins with what was read or listed.
Returned(r) ==
    CASE r.status = "ok" ->
           IF r.tool = "clone_github_repo" THEN "Repository '"
           ELSE IF r.tool = "read_latest_content"
           THEN "*** CONTEXT UPDATE: LATEST CONTENT DETECTED ***"
           ELSE IF r.tool = "list_files" /\ r.arg \in {<<".">>, << >>}
           THEN "=== Storage Folder ==="
           ELSE IF r.tool = "read_file" THEN ""
           ELSE "Directory: "
      [] r.status = "empty"              -> "No files or repositories found in storage."
      [] r.status = "warning_exists"     -> "Warning: Repository '"
      [] r.status = "error_nonzero_exit" -> "Error cloning repository: "
      [] r.status = "error_empty" ->
           IF r.tool = "read_file" THEN "Error: File name cannot be empty."
           ELSE "Error: Repository URL cannot be empty."
      [] r.status = "error_scheme"     -> "Error: Invalid repository URL format."
      [] r.status = "error_no_name"    -> "Error: Could not extract repository name from URL."
      [] r.status = "error_timeout"    -> "Error: Clone operation timed out after 5 minutes."
      [] r.status = "error_no_git"     -> "Error: Git is not installed or not in PATH."
      [] r.status = "error_no_storage" -> "Error: Storage directory does not exist: "
      [] r.status = "error_not_found" ->
           IF r.tool = "read_file" THEN "Error: File '" ELSE "Error: Cannot access directory '"
      [] r.status = "error_no_directory" -> "Error: Cannot access directory '"

----------------------------------------------------------------------------
(* The server after main.py is imported: start_watching has run, then the *)
(* cache is created empty; the tools are called from then on.             *)

Queries == {<<" ">>, <<"a">>, <<"B", "_", "c">>, <<"b", "-", "c">>}

ListArgs == {<<".">>, <<" ">>, <<"a">>}

FolderArgs == {<<"a">>, <<"z">>, <<" ">>}

Urls == {<<"a">>, <<"g", "i", "t", "@", "/", "a">>,
         <<"g", "i", "t", "@", "/", "a", ".", "g", "i", "t", "/">>}

\* The files uploaded while the tools are in use; a name of blanks is a
\* legal file name.
UploadPaths == {<<"B_c">>, <<" ">>}

\* The storage directory, made by Config.ensure_directories_exist at import,
\* is removed while it is empty.
EnvRmStorage ==
    /\ dstExists /\ dst = EmptyTree
    /\ dstExists' = FALSE
    /\ UNCHANGED <<srcExists, src, dst, clock, observer, queue, obsPc, curEv, mainPc,
                   walkDirs, walkFiles, scanClean, lastCall>>
    /\ ToolIdle

\* The changes of the upload directory and of the storage root while the
\* tools are in use.
ToolEnv ==
    \/ EnvMkRoot
    \/ EnvRmStorage
    \/ \E p \in UploadPaths : EnvCreateFile(p)
    \/ \E p \in UploadPaths : EnvDeleteFile(p)

ToolInit ==
    /\ srcExists \in BOOLEAN
    /\ src = EmptyTree
    /\ dst = EmptyTree
    /\ dstExists = TRUE
    /\ clock = 0
    /\ observer = IF srcExists THEN "alive" ELSE "None"
    /\ queue = << >>
    /\ obsPc = "idle"
    /\ curEv = NoEvent
    /\ mainPc = "idle"
    /\ walkDirs = {}
    /\ walkFiles = {}
    /\ scanClean = TRUE
    /\ lastCall = Call("start_watching", IF srcExists THEN "started" ELSE "no_source")
    /\ cache = {}
    /\ lastTool = NoTool

ToolNext ==
    \/ ToolEnv
    \/ Dispatch
    \/ Handle
    \/ \E q \in Queries : ReadFile(q)
    \/ \E a \in ListArgs : ListFiles(a)
    \/ \E a \in FolderArgs : ListFilesWithinFolder(a)
    \/ \E u \in Urls, o \in CloneOutcomes : CloneGithubRepo(u, o)
    \/ \E l \in ListdirOrders : ReadLatestContent(l)
    \/ Respond

ToolSpec == ToolInit /\ [][ToolNext]_vars

----------------------------------------------------------------------------
(* build_files and read_latest_content on their own: a storage tree that   *)
(* is listed and read again and again                                     *)

\* The trees the listings are run on: two files in the root; below it any of
\* the directories a (three levels deep), B_c and .git with their files.
ListOptional ==
    {<<"a">>, <<"a", "B_c">>, <<"a", "a">>, <<"a", "a", "B_c">>, <<"a", "a", "a">>,
     <<"B_c">>, <<".git">>}

\* The files that come with a directory of the tree.
ListFixed(paths) ==
    {p \o <<"B_c">> : p \in paths \cap {<<"a", "a", "a">>}}
      \cup {p \o <<"a">> : p \in paths \cap {<<"B_c">>, <<".git">>}}

ListDirs == {<<"a">>, <<"a", "a">>, <<"a", "a", "a">>, <<"B_c">>, <<".git">>}

\* The mtime of the directory B_c is before, equal to or after that of a; that
\* of .git is the latest of all; main.py is older than a until it is written
\* again; main.py and a/B_c hold bytes of one class, the other files hold
\* text.
ListTree(paths, time, class) ==
    [p \in paths \cup ListFixed(paths) \cup {<<" ">>, <<"main.py">>} |->
        IF p = <<"B_c">> THEN DirNodeAt(time)
        ELSE IF p = <<".git">> THEN DirNodeAt(3)
        ELSE IF p \in ListDirs THEN DirNodeAt(1)
        ELSE IF p = <<"main.py">> THEN FileNode(class, 0)
        ELSE IF p = <<"a", "B_c">> THEN FileNode(class, 0)
        ELSE FileNode(TextBytes, 0)]

ListTrees ==
    {ListTree(paths, time, class) :
        paths \in {ps \in SUBSET ListOptional :
                      \A p \in ps : Len(p) > 1 => Parent(p) \in ps},
        time \in 0..2, class \in FileClasses}

\* The directories whose os.listdir raises PermissionError.
DeniedSets == {{}, {<<"a">>}, {<<"a", "a">>}, {<<"B_c">>}}

ListDepths == {0, 1, 2, DefaultMaxDepth}

ListInit ==
    /\ srcExists = FALSE
    /\ src = EmptyTree
    /\ dst \in ListTrees
    /\ dstExists = TRUE
    /\ clock = 0
    /\ observer = "None"
    /\ queue = << >>
    /\ obsPc = "idle"
    /\ curEv = NoEvent
    /\ mainPc = "idle"
    /\ walkDirs = {}
    /\ walkFiles = {}
    /\ scanClean = TRUE
    /\ lastCall = Call("start_watching", "no_source")
    /\ cache = {}
    /\ lastTool = NoTool

\* A call of build_files(directory, max_depth).
BuildFilesCall(d, maxDepth, listing, denied) ==
    /\ ToolReady
    /\ IF IsDir(dst, d)
       THEN LET out == BuildFiles(dst, d, maxDepth, listing, denied)
            IN  /\ lastTool' = [Result("build_files", <<d, maxDepth, listing, denied>>,
                                       "ok", FALSE, FALSE, "storage", d)
                                  EXCEPT !.out = out]
                /\ cache' = CacheUpdate(cache, NamesListed(out))
       ELSE \* DirectoryAccessError
            /\ lastTool' = Result("build_files", <<d, maxDepth, listing, denied>>,
                                  "error_no_directory", FALSE, FALSE, "-", NoPath)
            /\ cache' = cache
    /\ UNCHANGED <<dst, dstExists>>
    /\ ToolFrame

\* A file of storage is written again: shutil.copy2 puts the bytes and the
\* later mtime of its source on it.
CopyAgain(p) ==
    /\ IsFile(dst, p)
    /\ dst[p].mtime < 2
    /\ dst' = [dst EXCEPT ![p].mtime = 2]
    /\ ToolIdle
    /\ UNCHANGED dstExists
    /\ ToolFrame

ListNext ==
    \/ \E d \in {Root, <<"a">>}, n \in ListDepths, l \in ListdirOrders, x \in DeniedSets :
          BuildFilesCall(d, n, l, x)
    \/ \E l \in ListdirOrders : ReadLatestContent(l)
    \/ CopyAgain(<<"main.py">>)
    \/ Respond

ListSpec == ListInit /\ [][ListNext]_vars

----------------------------------------------------------------------------
(* clone_github_repo on its own: storage as earlier clones and uploads left *)
(* it, no upload directory                                                 *)

\* A directory of storage whose path ends like the absolute path of the
\* destination of a clone of a: B_c/w/storage/a, as far down as `look` says.
LookAlike(look) ==
    {p \in {<<"B_c">>, <<"B_c", "w">>, <<"B_c", "w", "storage">>,
            <<"B_c", "w", "storage", "a">>,
            <<"B_c", "w", "storage", "a", "main.py">>} : Len(p) <= look}

\* What is at storage/a before the first call: nothing, a file, or a
\* directory with a file.
Destinations == {{}, {<<"a">>}, {<<"a">>, <<"a", "main.py">>}}

CloneTree(look, dest, blank) ==
    [p \in LookAlike(look) \cup dest \cup blank |->
        IF p \in {<<"B_c", "w", "storage", "a", "main.py">>, <<"a", "main.py">>, <<" ">>}
             \/ (p = <<"a">> /\ dest = {<<"a">>})
        THEN FileNode(0, 0)
        ELSE DirNode]

CloneTrees ==
    {CloneTree(look, dest, blank) :
        look \in {0, 3, 5}, dest \in Destinations, blank \in {{}, {<<" ">>}}}

CloneInit ==
    /\ srcExists = FALSE
    /\ src = EmptyTree
    /\ dst \in CloneTrees
    /\ dstExists = TRUE
    /\ clock = 0
    /\ observer = "None"
    /\ queue = << >>
    /\ obsPc = "idle"
    /\ curEv = NoEvent
    /\ mainPc = "idle"
    /\ walkDirs = {}
    /\ walkFiles = {}
    /\ scanClean = TRUE
    /\ lastCall = Call("start_watching", "no_source")
    /\ cache = {}
    /\ lastTool = NoTool

CloneNext ==
    \/ \E u \in Urls, o \in CloneOutcomes : CloneGithubRepo(u, o)
    \/ ListFiles(<<".">>)
    \/ Respond

CloneSpec == CloneInit /\ [][CloneNext]_vars

----------------------------------------------------------------------------
(* normalize_name on its own *)

NormAlphabet == {"A", "a", "B", "_", "-", "/"}

\* The strings of at most MaxLen characters.
NormStrings == UNION {[1..k -> NormAlphabet] : k \in 0..MaxLen}

NormInit ==
    /\ srcExists = FALSE
    /\ src = EmptyTree
    /\ dst = EmptyTree
    /\ dstExists = TRUE
    /\ clock = 0
    /\ observer = "None"
    /\ queue = << >>
    /\ obsPc = "idle"
    /\ curEv = NoEvent
    /\ mainPc = "idle"
    /\ walkDirs = {}
    /\ walkFiles = {}
    /\ scanClean = TRUE
    /\ lastCall = Call("start_watching", "no_source")
    /\ cache = {}
    /\ lastTool = NoTool

\* normalize_name(x)
NormalizeCall(x) ==
    /\ ToolReady
    /\ lastTool' = [Result("normalize_name", x, "ok", FALSE, FALSE, "-", NoPath)
                      EXCEPT !.out = NormalizeName(x)]
    /\ UNCHANGED <<dst, dstExists, cache>>
    /\ ToolFrame

NormNext ==
    \/ \E x \in NormStrings : NormalizeCall(x)
    \/ Respond

NormSpec == NormInit /\ [][NormNext]_vars

----------------------------------------------------------------------------
(* The mirror *)

\* The file at p in the source has its copy at p in the destination.
MirroredIn(s, d, p) ==
    IsFile(s, p) => /\ IsFile(d, p)
                    /\ d[p].content = s[p].content

Mirrored(p) == MirroredIn(src, dst, p)

MirroredWithTime(p) ==
    IsFile(src, p) => /\ IsFile(dst, p)
                      /\ dst[p].content = src[p].content
                      /\ dst[p].mtime = src[p].mtime

\* Nothing is running and nothing is waiting: the watcher is up, start_watching
\* has returned, every event has been handled.
Quiescent ==
    /\ observer = "alive" /\ mainPc = "idle"
    /\ obsPc = "idle" /\ queue = << >>

\* The destination path of p is obstructed: a file sits where a parent
\* directory is needed, or a directory sits at p itself.
Obstructed(d, p) ==
    \/ \E a \in Ancestors(p) : IsFile(d, a)
    \/ IsDir(d, p)

\* The event is one the handler copies a file for, and the file to copy.
FileEvent(e) ==
    ~e.is_directory /\ e.type \in {"created", "modified", "moved"}

EventPath(e) == IF e.type = "moved" THEN e.dest_path ELSE e.src_path

----------------------------------------------------------------------------
(* Claims about the synchronizer *)

\* C1: once start_watching has run on an existing source directory, every
\* file under the source root eventually has a same-path, same-content copy
\* in the destination once the source stops changing.  When the system is
\* quiescent nothing further runs unless the source changes, so the copies
\* must be there already.
C1_EventuallyMirrored ==
    Quiescent => \A p \in DOMAIN src : Mirrored(p)

\* C2: while the watcher runs, a create, modify or move event on a file makes
\* exactly one sync_single_file call on its path (the destination path of a
\* move) and a directory event makes none; consequently the file the event
\* names, if still in the source, is in the destination with the same content
\* once the handler has run.
C2_EventCopies ==
    [][ (obsPc = "handling" /\ obsPc' = "idle") =>
          /\ dst' = IF FileEvent(curEv)
                    THEN SyncSingleFile(src, dst, EventPath(curEv))
                    ELSE dst
          /\ FileEvent(curEv) => MirroredIn(src', dst', EventPath(curEv)) ]_vars

\* The first half of C2 alone: one copy per file event, none otherwise.
C2_OneCopyPerEvent ==
    [][ (obsPc = "handling" /\ obsPc' = "idle") =>
          dst' = IF FileEvent(curEv)
                 THEN SyncSingleFile(src, dst, EventPath(curEv))
                 ELSE dst ]_vars

\* C3: when sync_all_files returns and the source did not change meanwhile,
\* every source file has a copy at the same relative path with the same content
\* and modification time, and every source directory exists in the destination.
C3_FullScanMirrors ==
    (mainPc = "schedule" /\ scanClean) =>
        \A p \in DOMAIN src :
            /\ MirroredWithTime(p)
            /\ IsDir(src, p) => IsDir(dst, p)

\* C4: no step removes a file or a directory from the destination: every path
\* of the destination stays, with its kind, so the set of paths only grows;
\* the copy of a file deleted or renamed in the source stays.
C4_AdditiveOnly ==
    [][ \A p \in DOMAIN dst : p \in DOMAIN dst' /\ dst'[p].kind = dst[p].kind ]_vars

\* A mirrored copy outlives its source: the file has been renamed in the
\* source, the renaming has been handled, and the copy under the old name is
\* still there beside the copy under the new one.
C4_Witness ==
    /\ Quiescent
    /\ \E p \in DOMAIN dst, q \in DOMAIN src :
          /\ p # q /\ IsFile(dst, p) /\ ~Exists(src, p)
          /\ IsFile(src, q) /\ Mirrored(q)
          /\ dst[p].content = src[q].content

\* C5: start_watching with no source directory returns without raising, runs
\* no full scan, creates no observer and leaves the destination alone.
C5_StartWithoutSource ==
    [][ (StartWatching /\ ~srcExists /\ observer = "None") =>
          /\ lastCall' = Call("start_watching", "no_source")
          /\ mainPc' = "idle"
          /\ observer' = "None"
          /\ UNCHANGED <<dst, dstExists, queue, obsPc, walkDirs, walkFiles>> ]_vars

C5_Witness ==
    /\ lastCall = Call("start_watching", "no_source")
    /\ ~srcExists /\ observer = "None" /\ mainPc = "idle"

\* C6: once stop_watching has returned the observer thread has ended and the
\* reference is cleared; until the next start_watching nothing writes the
\* destination; the next start_watching runs the full scan again.
C6_StoppedIsStopped ==
    /\ [](lastCall = Call("stop_watching", "stopped") =>
             observer = "None" /\ mainPc = "idle")
    /\ [](observer = "None" => obsPc = "idle" /\ queue = << >>)
    /\ [][ (observer = "None" /\ mainPc = "idle") => dst' = dst ]_vars
    /\ [][ (StartWatching /\ observer = "None" /\ srcExists) =>
             mainPc' = "walk" /\ walkDirs' = {Root} ]_vars

\* stop_watching has returned while an event was still unhandled: the file it
\* was about is in the source and not in the destination.
C6_Witness ==
    /\ lastCall = Call("stop_watching", "stopped")
    /\ \E p \in DOMAIN src : IsFile(src, p) /\ ~Exists(dst, p)

\* C7: stop_watching with no observer returns without raising and changes
\* nothing, whether the watcher never started, start_watching returned early
\* or an earlier stop_watching has cleared the reference.
C7_StopWithoutObserver ==
    [][ (StopWatching /\ observer = "None") =>
          /\ lastCall' = Call("stop_watching", "not_started")
          /\ UNCHANGED <<srcExists, src, dst, dstExists, clock, observer, queue, obsPc, curEv,
                         mainPc, walkDirs, walkFiles, scanClean, cache, lastTool>> ]_vars

C7_Witness ==
    /\ lastCall = Call("stop_watching", "not_started")
    /\ observer = "None" /\ mainPc = "idle"
    /\ DOMAIN dst # {}

----------------------------------------------------------------------------
(* Claims about the filename cache *)

ListingTools == {"list_files", "list_files_within_folder", "clone_github_repo"}

\* The names of the files that exist in the storage root, the upload root or
\* the working directory.
NamesOnDisk(s, d) ==
    {Basename(p) : p \in {x \in DOMAIN s : IsFile(s, x)}}
      \cup {Basename(p) : p \in {x \in DOMAIN d : IsFile(d, x)}}
      \cup CwdFiles

\* The query of the read_file call that has just returned is, character for
\* character, a name in the cache.
ReadOfCachedName ==
    /\ lastTool.tool = "read_file"
    /\ \E n \in cache : Chars(n) = lastTool.arg

\* C8: the cache is empty at the start and never loses a name; only a call
\* that lists a directory (list_files, list_files_within_folder, the refresh
\* after a clone) adds names, and the names it adds are names of files on disk.
C8_CacheOnlyGrows ==
    /\ cache = {}
    /\ [][ /\ cache \subseteq cache'
           /\ cache' # cache =>
                /\ lastTool'.tool \in ListingTools
                /\ cache' \ cache \subseteq NamesOnDisk(src', dst') ]_vars

\* A stale entry: a cached name that no file of the search roots bears any
\* more, beside a name a later listing added.
C8_Witness ==
    /\ \E n \in cache : n \notin NamesOnDisk(src, dst)
    /\ \E n \in cache : n \in NamesOnDisk(src, dst)

Visible(results) ==
    {[status |-> r.status, root |-> r.root, path |-> r.path] : r \in results}

\* The caches read_file is tried with beside the one it ran with: the empty
\* one, each of one name, the one of all names.
OtherCaches == {{}, AllNames} \cup {{n} : n \in AllNames}

\* C10: read_file is decided by the walk of the search roots, never by the
\* cache: after a miss the walk still runs, a stale entry does not make the
\* call succeed, and with any other cache the call returns the same.
C10_WalkDecidesRead ==
    /\ (lastTool.tool = "read_file" /\ lastTool.status # "error_empty") =>
          /\ lastTool.walked
          /\ IF FindFileInPaths(Strip(lastTool.arg), GetSearchPaths) = {}
             THEN lastTool.status = "error_not_found"
             ELSE /\ lastTool.status = "ok"
                  /\ <<lastTool.root, lastTool.path>>
                        \in FindFileInPaths(Strip(lastTool.arg), GetSearchPaths)
    /\ lastTool.tool = "read_file" =>
          LET seen == Visible(ReadFileResults(lastTool.arg, cache))
          IN  /\ Visible({lastTool}) \subseteq seen
              /\ \A c \in OtherCaches : Visible(ReadFileResults(lastTool.arg, c)) = seen

\* read_file of a stale entry: the cache has the name, no search root has the
\* file, the call reports that it found nothing.
C10_Witness ==
    /\ ReadOfCachedName
    /\ lastTool.hit
    /\ lastTool.status = "error_not_found"

----------------------------------------------------------------------------
(* Claims about the path matcher *)

\* The files of a root, outside every .git subtree, whose normalized name or
\* normalized relative path contains the normalized query.
Candidates(root, q) ==
    {p \in DOMAIN TreeOf(root) :
        /\ IsFile(TreeOf(root), p)
        /\ \A i \in 1..(Len(p) - 1) : p[i] # ".git"
        /\ \/ Contains(NormalizeName(q), NormalizeName(Chars(p[Len(p)])))
           \/ Contains(NormalizeName(q), NormalizeName(RelPath(p)))}

\* The position of the first root of the list that has a candidate, 0 if none.
FirstRootWith(q, roots) ==
    IF \E i \in 1..Len(roots) : Candidates(roots[i], q) # {}
    THEN CHOOSE i \in 1..Len(roots) :
            /\ Candidates(roots[i], q) # {}
            /\ \A j \in 1..(i - 1) : Candidates(roots[j], q) = {}
    ELSE 0

\* C11: find_file_in_paths takes the roots in order, the storage root first and
\* the upload root only if it exists; what it returns is a candidate of the
\* first root that has one, never a file below .git; it returns nothing only
\* when no root has a candidate.  It is stated of the search that read_file
\* has just made and of the search for ".git", which only files below .git
\* match.
C11_FirstRootWins ==
    (lastTool.tool = "read_file" /\ lastTool.status # "error_empty") =>
        /\ GetSearchPaths[1] = "storage"
        /\ Len(GetSearchPaths) = (IF srcExists THEN 2 ELSE 1)
        /\ \A q \in {Strip(lastTool.arg), DotGit} :
              LET found == FindFileInPaths(q, GetSearchPaths)
                  first == FirstRootWith(q, GetSearchPaths)
              IN  IF first = 0 THEN found = {}
                  ELSE /\ found # {}
                       /\ \A f \in found :
                             /\ f[1] = GetSearchPaths[first]
                             /\ f[2] \in Candidates(f[1], q)
        /\ LET first == FirstRootWith(Strip(lastTool.arg), GetSearchPaths)
           IN  IF first = 0 THEN lastTool.status = "error_not_found"
               ELSE /\ lastTool.status = "ok"
                    /\ lastTool.root = GetSearchPaths[first]
                    /\ lastTool.path \in Candidates(lastTool.root, Strip(lastTool.arg))

\* read_file of a name that both roots hold returned the copy in the storage
\* root, while a file below .git matches a query and is not returned.
C11_Witness ==
    /\ lastTool.tool = "read_file" /\ lastTool.status = "ok"
    /\ lastTool.root = "storage"
    /\ srcExists /\ Candidates("uploads", Strip(lastTool.arg)) # {}
    /\ \E p \in DOMAIN dst : IsFile(dst, p) /\ UnderGit(p) /\ Matches(DotGit, p)
    /\ FindFileInPaths(DotGit, GetSearchPaths) = {}

\* The roots of Config.get_search_paths(): the storage root, then the upload
\* root if it exists.
RootsAsked == <<"storage">> \o (IF srcExists THEN <<"uploads">> ELSE << >>)

\* C12: a read_file whose query no file of an existing root matches returns
\* the not-found failure, and the failure names every root that was searched;
\* so it does when neither root exists on disk.
C12_NotFoundListsRoots ==
    (/\ lastTool.tool = "read_file" /\ lastTool.status # "error_empty"
     /\ \A r \in {"storage", "uploads"} :
           RootExists(r) => Candidates(r, Strip(lastTool.arg)) = {})
      => /\ lastTool.status = "error_not_found"
         /\ lastTool.searched = RootsAsked

\* The failure when neither the storage root nor the upload root exists.
C12_Witness ==
    /\ lastTool.tool = "read_file" /\ lastTool.status = "error_not_found"
    /\ ~dstExists /\ ~srcExists
    /\ lastTool.searched = <<"storage">>

\* The tool calls that resolve a name through find_file_in_paths or
\* find_directory_in_paths: read_file, list_files with another argument than
\* "." or "", list_files_within_folder.
ResolvesByMatcher ==
    \/ lastTool.tool \in {"read_file", "list_files_within_folder"}
    \/ lastTool.tool = "list_files" /\ lastTool.arg \notin {<<".">>, << >>}

\* C13: a query that is empty or only blanks is turned down before the
\* matcher runs, and resolves to no file and no directory.
C13_BlankQueryRejected ==
    (ResolvesByMatcher /\ Strip(lastTool.arg) = << >>) =>
        /\ ~lastTool.walked
        /\ lastTool.path = NoPath

----------------------------------------------------------------------------
(* Claims about build_files *)

\* The names of the subdirectories of a block, in the order of the block.
SubdirNames(block) == [i \in 1..Len(block.subdirs) |-> block.subdirs[i].name]

\* A list of names in strictly ascending lexicographic order.
Ascending(names) == \A i \in 1..(Len(names) - 1) : NameLess(names[i], names[i + 1])

\* The text without the [MOST RECENT] marks.
Unmarked(out) ==
    [i \in 1..Len(out) |->
        [out[i] EXCEPT !.subdirs =
            [j \in 1..Len(out[i].subdirs) |-> [out[i].subdirs[j] EXCEPT !.recent = FALSE]]]]

\* The blocks of the subdirectories of a listed directory come in the order
\* of their names: of two blocks with the same parent the one of the lesser
\* name is first.
RecursedInOrder(out) ==
    \A i, j \in 1..Len(out) :
        (/\ i < j
         /\ out[i].path # lastTool.arg[1] /\ out[j].path # lastTool.arg[1]
         /\ Parent(out[i].path) = Parent(out[j].path))
          => NameLess(Basename(out[i].path), Basename(out[j].path))

\* Two subdirectories of the listed directory share the greatest mtime.
RecentTie(t, d) ==
    \E m, n \in {p \in Children(t, d) : IsDir(t, p) /\ Basename(p) \notin {".git", ".github"}} :
        /\ m # n /\ t[m].mtime = t[n].mtime
        /\ \A p \in Children(t, d) :
              (IsDir(t, p) /\ Basename(p) \notin {".git", ".github"}) => t[p].mtime <= t[m].mtime

\* C14: in the text build_files returns every block has its subdirectory
\* names, .git left out, and its file names in lexicographic order, and the
\* blocks of the subdirectories follow in that order; for the same tree the
\* text is the same whatever the cache holds, whatever was called before and
\* in whatever order os.listdir gives the names (the [MOST RECENT] mark
\* follows that order only when two subdirectories tie for the latest mtime).
C14_ListingDeterministic ==
    (lastTool.tool = "build_files" /\ lastTool.status = "ok") =>
        LET out    == lastTool.out
            d      == lastTool.arg[1]
            depth  == lastTool.arg[2]
            denied == lastTool.arg[4]
        IN  /\ \A i \in 1..Len(out) :
                  /\ Ascending(SubdirNames(out[i]))
                  /\ Ascending(out[i].files)
                  /\ \A j \in 1..Len(out[i].subdirs) : out[i].subdirs[j].name # ".git"
            /\ RecursedInOrder(out)
            /\ out = BuildFiles(dst, d, depth, lastTool.arg[3], denied)
            /\ \A l \in ListdirOrders :
                  LET other == BuildFiles(dst, d, depth, l, denied)
                  IN  /\ Unmarked(other) = Unmarked(out)
                      /\ ~RecentTie(dst, d) => other = out

\* A call after an earlier one has left in the cache a name that this one
\* does not list, on a tree with two files in the root and two subdirectories
\* beside .git.
C14_Witness ==
    /\ lastTool.tool = "build_files" /\ lastTool.status = "ok"
    /\ lastTool.arg[1] = Root /\ lastTool.arg[2] = 1
    /\ lastTool.arg[4] = {}
    /\ \E n \in cache : n \notin NamesListed(lastTool.out)
    /\ Len(lastTool.out) = 3
    /\ Len(lastTool.out[1].subdirs) = 2 /\ Len(lastTool.out[1].files) = 2
    /\ <<".git">> \in DOMAIN dst

\* The directories at most maxDepth levels below d that the walk can reach:
\* not .git nor below it, and not below a directory that cannot be listed.
WithinDepth(t, d, maxDepth, denied) ==
    {d} \cup
    {p \in DOMAIN t :
        /\ IsDir(t, p)
        /\ Len(p) > Len(d) /\ SubSeq(p, 1, Len(d)) = d
        /\ Len(p) - Len(d) <= maxDepth
        /\ \A i \in (Len(d) + 1)..Len(p) : p[i] # ".git"
        /\ \A i \in Len(d)..(Len(p) - 1) : SubSeq(p, 1, i) \notin denied}

Range(seq) == {seq[i] : i \in 1..Len(seq)}

\* C15: build_files(d, max_depth) has one block for each directory at most
\* max_depth levels below d and for no other; each block names the immediate
\* subdirectories and files of its directory; with max_depth = 0 the text is
\* the block of d alone.
C15_DepthBounded ==
    (lastTool.tool = "build_files" /\ lastTool.status = "ok") =>
        LET out    == lastTool.out
            d      == lastTool.arg[1]
            depth  == lastTool.arg[2]
            denied == lastTool.arg[4]
        IN  /\ {out[i].path : i \in 1..Len(out)} = WithinDepth(dst, d, depth, denied)
            /\ Len(out) = Cardinality(WithinDepth(dst, d, depth, denied))
            /\ \A i \in 1..Len(out) :
                  /\ Len(out[i].path) - Len(d) <= depth
                  /\ ~out[i].error =>
                        /\ Range(SubdirNames(out[i]))
                             = {Basename(p) : p \in {c \in Children(dst, out[i].path) :
                                                       IsDir(dst, c) /\ Basename(c) # ".git"}}
                        /\ Range(out[i].files)
                             = {Basename(p) : p \in {c \in Children(dst, out[i].path) :
                                                       IsFile(dst, c)}}
            /\ depth = 0 => Len(out) = 1 /\ out[1].path = d

\* max_depth = 2 on a tree with a directory three levels down, and the
\* subdirectory of the second level named but not entered.
C15_Witness ==
    /\ lastTool.tool = "build_files" /\ lastTool.status = "ok"
    /\ lastTool.arg[1] = Root /\ lastTool.arg[2] = 2 /\ lastTool.arg[4] = {}
    /\ <<"a", "a", "a", "B_c">> \in DOMAIN dst
    /\ \E i \in 1..Len(lastTool.out) :
          /\ lastTool.out[i].path = <<"a", "a">>
          /\ SubdirNames(lastTool.out[i]) = <<"a">>
    /\ \A i \in 1..Len(lastTool.out) : lastTool.out[i].path # <<"a", "a", "a">>

----------------------------------------------------------------------------
(* Claims about failures local to one item *)

\* p is strictly below q.
Below(p, q) == Len(p) > Len(q) /\ SubSeq(p, 1, Len(q)) = q

\* What is left of a listing made with every directory readable when the
\* directories of denied cannot be listed: their blocks become error blocks,
\* the blocks below them go, every other block stays as it is.
WithDenied(out, denied) ==
    LET Reached(b) == \A x \in denied : ~Below(b.path, x)
        kept == SelectSeq(out, Reached)
    IN  [i \in 1..Len(kept) |->
            IF kept[i].path \in denied THEN ErrorBlock(kept[i].path) ELSE kept[i]]

\* The files read_latest_content has to show for the directory n.
FilesBelow(t, n) ==
    {p \in DOMAIN t : /\ IsFile(t, p) /\ Below(p, <<n>>)
                      /\ \A i \in 2..(Len(p) - 1) : p[i] # ".git"}

\* C16: a failure local to one item does not abort the rest.  A listing by
\* build_files in which some directories cannot be listed is the listing of
\* the same tree with every directory readable, except that each such
\* directory has an inline error block and nothing below it; and
\* read_latest_content on a directory has one section for every file below
\* it, the files that can be read shown with their content whatever happens
\* to the others.
C16_LocalFailureStaysLocal ==
    /\ (lastTool.tool = "build_files" /\ lastTool.status = "ok") =>
          LET d       == lastTool.arg[1]
              depth   == lastTool.arg[2]
              listing == lastTool.arg[3]
              denied  == lastTool.arg[4]
          IN  lastTool.out = WithDenied(BuildFiles(dst, d, depth, listing, {}), denied)
    /\ (lastTool.tool = "read_latest_content" /\ lastTool.status = "ok"
          /\ IsDir(dst, lastTool.path)) =>
          /\ {s.path : s \in lastTool.out}
               = {SubSeq(p, 2, Len(p)) : p \in FilesBelow(dst, lastTool.path[1])}
          /\ \A p \in FilesBelow(dst, lastTool.path[1]) :
                \E s \in lastTool.out :
                   /\ s.path = SubSeq(p, 2, Len(p))
                   /\ dst[p].content = TextBytes => s.shown = "content"
                   /\ dst[p].content # TextBytes =>
                         SubSeq(s.shown, 1, 6) = "Error:" \/ s.shown = "[Binary File]"

\* build_files met a directory it could not list and went on with a sibling
\* listed after it.
C16_Witness ==
    /\ lastTool.tool = "build_files"
    /\ lastTool.status = "ok"
    /\ \E i, j \in 1..Len(lastTool.out) :
          /\ i < j
          /\ lastTool.out[i].error
          /\ ~lastTool.out[j].error
          /\ Len(lastTool.out[j].path) = Len(lastTool.out[i].path)

\* read_latest_content showed a directory with a file it could not read and
\* a file it could.
C16_LatestReached ==
    /\ lastTool.tool = "read_latest_content"
    /\ lastTool.status = "ok"
    /\ \E s, u \in lastTool.out : s.shown = "content" /\ u.shown # "content"

----------------------------------------------------------------------------
(* Claims about clone_github_repo *)

\* The URL passes the checks of clone_github_repo and the destination derived
\* from it is there.
HasDestination(arg) ==
    LET url == Strip(arg)
    IN  /\ AcceptedScheme(url)
        /\ RepoName(url) # << >>
        /\ Exists(dst, <<NameOf(RepoName(url))>>)

CloneStep == lastTool = NoTool /\ lastTool'.tool = "clone_github_repo"

\* C17: clone_github_repo on a URL whose destination exists under the storage
\* root answers with the warning, which is not one of the answers that follow
\* a run of the external command, and leaves storage and the filename cache
\* as they were.
C17_ExistingDestinationWarns ==
    [][(CloneStep /\ HasDestination(lastTool'.arg)) =>
          /\ lastTool'.status = "warning_exists"
          /\ dst' = dst
          /\ dstExists' = dstExists
          /\ cache' = cache]_vars

\* The warning for a destination that an earlier clone of this behaviour made.
C17_Witness ==
    /\ lastTool.tool = "clone_github_repo"
    /\ lastTool.status = "warning_exists"
    /\ IsFile(dst, <<"a", "B_c">>)
    /\ dst[<<"a", "B_c">>].content = -1

\* The files of the work tree that a clone left at storage/repo.
ClonedFiles(t, repo) ==
    {p \in DOMAIN t : IsFile(t, p) /\ Len(p) > 1 /\ p[1] = repo /\ ~UnderGit(p)}

\* C18: after a successful clone every file name of the cloned tree outside
\* .git is in the filename cache, and a clone that fails leaves the cache
\* unchanged.
C18_RefreshExactlyOnSuccess ==
    [][CloneStep =>
          /\ lastTool'.status = "ok" =>
                \A p \in ClonedFiles(dst', lastTool'.path[1]) : Basename(p) \in cache'
          /\ lastTool'.status # "ok" => cache' = cache]_vars

\* The half of C18 about the clones that do not succeed.
C18_FailureLeavesCache ==
    [][(CloneStep /\ lastTool'.status # "ok") => cache' = cache]_vars

\* A clone succeeded and a file of its work tree is not in the cache.
C18_Reached ==
    /\ lastTool.tool = "clone_github_repo"
    /\ lastTool.status = "ok"
    /\ \E p \in ClonedFiles(dst, lastTool.path[1]) : Basename(p) \notin cache

----------------------------------------------------------------------------
(* Claims about read_latest_content *)

\* The immediate children of the storage root that are not reserved names.
TopLevel(t) == {n \in AllNames : <<n>> \in DOMAIN t /\ n \notin ReservedNames}

\* C19: whenever read_latest_content has answered with an item, the item is
\* an immediate child of the storage root as it is now, is none of .git,
\* .github and .DS_Store, and no other such child has a later mtime; when the
\* item is a file the content shown is attributed to that file alone.
C19_LatestIsNewest ==
    (lastTool.tool = "read_latest_content" /\ lastTool.status = "ok") =>
        LET n == lastTool.path[1]
        IN  /\ Len(lastTool.path) = 1
            /\ n \in TopLevel(dst)
            /\ \A m \in TopLevel(dst) : dst[<<m>>].mtime <= dst[<<n>>].mtime
            /\ IsFile(dst, <<n>>) => {s.path : s \in lastTool.out} = {<<n>>}

\* Of two files alone with reserved names and older directories the later is
\* shown: main.py has been written again after the file of blanks, .git is
\* later still and os.listdir gives main.py last.
C19_Witness ==
    /\ lastTool.tool = "read_latest_content"
    /\ lastTool.status = "ok"
    /\ lastTool.path = <<"main.py">>
    /\ lastTool.arg[Len(lastTool.arg)] = "main.py"
    /\ dst[<<"main.py">>].mtime > dst[<<" ">>].mtime
    /\ IsDir(dst, <<".git">>)
    /\ dst[<<".git">>].mtime > dst[<<"main.py">>].mtime

\* C20: in read_latest_content a file with a null byte in its first 1024
\* bytes is shown as the placeholder, not as an error.
C20_BinaryGetsPlaceholder ==
    (lastTool.tool = "read_latest_content" /\ lastTool.status = "ok") =>
        \A s \in lastTool.out :
            LET p == IF IsDir(dst, lastTool.path) THEN lastTool.path \o s.path ELSE s.path
            IN  (dst[p].content = NullBytes /\ ~IsImageFile(Basename(p))
                   /\ ~IsPdfFile(Basename(p)))
                  => s.shown = "[Binary File]"

\* read_latest_content showed a file with a null byte.
C20_Reached ==
    /\ lastTool.tool = "read_latest_content"
    /\ lastTool.status = "ok"
    /\ \E s \in lastTool.out : s.shown = "Error: NameError"
    /\ \E p \in DOMAIN dst : IsFile(dst, p) /\ dst[p].content = NullBytes

----------------------------------------------------------------------------
(* Claims about what the tools return *)

\* The call did not do what it was asked to.
Failed(r) == r.tool # "none" /\ r.status \notin {"ok", "empty"}

TextStartsWith(text, prefix) ==
    Len(text) >= Len(prefix) /\ SubSeq(text, 1, Len(prefix)) = prefix

\* C21: every tool call ends with a string returned, and the string of a call
\* that failed begins with "Error:" or "Warning:".
C21_FailureHasPrefix ==
    Failed(lastTool) =>
        \/ TextStartsWith(Returned(lastTool), "Error:")
        \/ TextStartsWith(Returned(lastTool), "Warning:")

\* A failed call whose string has neither prefix.
C21_Reached ==
    /\ Failed(lastTool)
    /\ ~TextStartsWith(Returned(lastTool), "Error:")
    /\ ~TextStartsWith(Returned(lastTool), "Warning:")

\* Every failed call other than a clone that git ended with a nonzero exit
\* has one of the prefixes.
C21_OtherFailuresHavePrefix ==
    (Failed(lastTool) /\ lastTool.status # "error_nonzero_exit") =>
        \/ TextStartsWith(Returned(lastTool), "Error:")
        \/ TextStartsWith(Returned(lastTool), "Warning:")

----------------------------------------------------------------------------
(* Claims about sync_single_file *)

\* The paths, relative to the source root, that the running scan and the
\* running handler pass to sync_single_file.
PathsPassed ==
    (IF obsPc = "handling"
     THEN {HandlerCalls(curEv)[i] : i \in 1..Len(HandlerCalls(curEv))}
     ELSE {})
      \cup (IF mainPc = "walk" THEN walkFiles ELSE {})

\* C22: whenever the scan or a handler passes a path to sync_single_file, a
\* second sync_single_file of the unchanged source file leaves the
\* destination as the first left it: the file is written over with the same
\* bytes and the same mtime, and no other path of the destination changes.
C22_CopyTwiceIsCopyOnce ==
    \A p \in PathsPassed :
        LET once == SyncSingleFile(src, dst, p)
        IN  SyncSingleFile(src, once, p) = once

\* The handler is copying a file whose copy, made from the bytes the source
\* has now, is in the destination already.
C22_Witness ==
    /\ obsPc = "handling"
    /\ FileEvent(curEv)
    /\ IsFile(src, EventPath(curEv))
    /\ MirroredWithTime(EventPath(curEv))
    /\ src[EventPath(curEv)].content > 0

----------------------------------------------------------------------------
(* Claims about normalize_name *)

\* C23: normalizing what normalize_name returned gives it back unchanged.
C23_NormalizeIdempotent ==
    lastTool.tool = "normalize_name" => NormalizeName(lastTool.out) = lastTool.out

\* normalize_name changed a string with a capital and an underscore.
C23_Witness ==
    /\ lastTool.tool = "normalize_name"
    /\ lastTool.out # lastTool.arg
    /\ \E i, j \in 1..Len(lastTool.arg) : lastTool.arg[i] = "_" /\ lastTool.arg[j] = "B"
    /\ \E i \in 1..Len(lastTool.out) : lastTool.out[i] = "-"


\* C24: copies of one path never run at the same time and each is whole.  The
\* full scan copies only while the observer thread runs no handler, and the
\* observer thread runs one handler at a time; and when a handler's copy has
\* completed the file it wrote has the bytes and the mtime the source had at
\* that moment, whatever an earlier copy left there, with every other path of
\* the destination as it was.  So after two copies of a path the file is the
\* source as the later one read it.
C24_LastCopyWins ==
    /\ [](mainPc = "walk" => obsPc = "idle")
    /\ [][ (obsPc = "handling" /\ obsPc' = "idle" /\ FileEvent(curEv)) =>
             LET p      == EventPath(curEv)
                 made   == MakeDirs(dst, Parent(p))
                 target == CopyTarget(src, made.tree, p)
             IN  (made.ok /\ target # NoPath) =>
                    /\ dst'[target] = FileNode(src[p].content, src[p].mtime)
                    /\ \A q \in (DOMAIN dst) \ {target} : dst'[q] = dst[q] ]_vars

\* Two copies of one path have been triggered in quick succession: the
\* handler runs for an event on a file that has an older copy in the
\* destination while another event on the same file waits in the queue.
C24_Witness ==
    /\ obsPc = "handling"
    /\ FileEvent(curEv)
    /\ IsFile(src, EventPath(curEv))
    /\ IsFile(dst, EventPath(curEv))
    /\ dst[EventPath(curEv)].content # src[EventPath(curEv)].content
    /\ queue # << >>
    /\ FileEvent(Head(queue))
    /\ EventPath(Head(queue)) = EventPath(curEv)

----------------------------------------------------------------------------
(* Claims about the watcher *)

\* C25: there is never a second watcher.  A full scan runs, and an observer is
\* created after it, only while the synchronizer holds no observer, so a new
\* observer never comes beside one that is alive; and a start_watching called
\* while the observer is alive returns at once, with no scan begun and the
\* observer, its queue and the destination as they were.
C25_OneWatcher ==
    /\ [](mainPc \in {"walk", "schedule"} => observer = "None" /\ obsPc = "idle")
    /\ [][ (observer' = "alive" /\ observer # "alive") => observer = "None" ]_vars
    /\ [][ (StartWatching /\ observer = "alive") =>
             /\ lastCall' = Call("start_watching", "already_running")
             /\ mainPc' = "idle"
             /\ UNCHANGED <<observer, queue, obsPc, curEv, dst, walkDirs, walkFiles>> ]_vars

\* start_watching has been called again while the observer was alive and
\* busy: it returned early and the handler is still running.
C25_Witness ==
    /\ lastCall = Call("start_watching", "already_running")
    /\ observer = "alive"
    /\ mainPc = "idle"
    /\ obsPc = "handling"


IsUnder(path, dir) == Len(path) > Len(dir) /\ SubSeq(path, 1, Len(dir)) = dir

====
